---- MODULE Spec2Model ----
(***************************************************************************)
(* Session tokens of the auth service (package auth): AuthenticateUser,    *)
(* AuthenticateSession, CreateSession and InvalidateSessions over a redis  *)
(* store, with the go-redis v8 client and gofrs/uuid tokens.               *)
(*                                                                         *)
(* A Go string is a sequence of byte values (0..255).  A redis key is a    *)
(* Go string, a redis value is a string or a set of strings.               *)
(***************************************************************************)
EXTENDS Integers, Sequences, FiniteSets, TLC

\* ------------------------------------------------------------- bounds
\* Width of Go's int and uint, scaled down (64 on the usual build).
IntBits == 3
\* The clock stops here.
MaxTime == 2
\* How many different values uuid.NewV4 can return.
MaxTokens == 2

\* ------------------------------------------------------------- constants
\* keyDuration := time.Hour * 24 * 30: one tick of the clock is 30 days.
keyDuration == 1

RECURSIVE Pow2(_)
Pow2(n) == IF n = 0 THEN 1 ELSE 2 * Pow2(n - 1)

MaxInt == Pow2(IntBits - 1) - 1

\* ------------------------------------------------------------- text
\* "session:" and ":user.id", "user:" and ":session.keys" as bytes.
SessionPrefix == <<115, 101, 115, 115, 105, 111, 110, 58>>
SessionSuffix == <<58, 117, 115, 101, 114, 46, 105, 100>>
UserPrefix == <<117, 115, 101, 114, 58>>
UserSuffix == <<58, 115, 101, 115, 115, 105, 111, 110, 46, 107, 101, 121, 115>>

\* strconv.AppendUint(b, n, 10): the decimal digits of n.
RECURSIVE FormatUint(_)
FormatUint(n) ==
    IF n < 10 THEN <<48 + n>> ELSE Append(FormatUint(n \div 10), 48 + (n % 10))

\* The value of a string of decimal digits, -1 if a byte is no digit.
RECURSIVE ParseDigits(_)
ParseDigits(s) ==
    IF s = <<>> THEN 0
    ELSE LET d == s[Len(s)] - 48
             hi == ParseDigits(SubSeq(s, 1, Len(s) - 1))
         IN  IF d < 0 \/ d > 9 \/ hi < 0 THEN -1 ELSE 10 * hi + d

\* strconv.Atoi(s) for an unsigned decimal text, as StringCmd.Int() calls it:
\* a syntax error for the empty string or a non-digit, a range error above
\* the largest int.
Atoi(s) ==
    LET n == ParseDigits(s)
    IN  IF s = <<>> \/ n < 0 THEN [n |-> 0, err |-> "strconv.ErrSyntax"]
        ELSE IF n > MaxInt THEN [n |-> MaxInt, err |-> "strconv.ErrRange"]
        ELSE [n |-> n, err |-> "nil"]

\* Mutant: the verb is %.8s, only the first eight bytes of the token are used.
sessionRedisKeyShort(sessionKey) ==
    SessionPrefix \o SubSeq(sessionKey, 1, 8) \o SessionSuffix

\* fmt.Sprintf("session:%s:user.id", sessionKey)
sessionRedisKey(sessionKey) == SessionPrefix \o sessionKey \o SessionSuffix

\* fmt.Sprintf("user:%d:session.keys", userId)
sessionInvertedIndexRedisKey(userId) == UserPrefix \o FormatUint(userId) \o UserSuffix

\* ------------------------------------------------------------- uuid
\* The 16 bytes of 2c816d07-9499-4907-8ea3-1785dfa0f9a0 (the token of the
\* comment in InvalidateSessions); NewV4 returns it with another last byte.
BaseUuid == <<44, 129, 109, 7, 148, 153, 73, 7, 142, 163, 23, 133, 223, 160, 249, 160>>

Uuids == {[BaseUuid EXCEPT ![16] = 160 + i] : i \in 1..MaxTokens}

HexDigit(n) == IF n < 10 THEN 48 + n ELSE 87 + n

\* UUID.String(): xxxxxxxx-xxxx-xxxx-xxxx-xxxxxxxxxxxx in lower-case hex.
RECURSIVE UuidHex(_, _)
UuidHex(u, i) ==
    IF i > Len(u) THEN <<>>
    ELSE (IF i \in {5, 7, 9, 11} THEN <<45>> ELSE <<>>)
         \o <<HexDigit(u[i] \div 16), HexDigit(u[i] % 16)>>
         \o UuidHex(u, i + 1)

UuidString(u) == UuidHex(u, 1)

\* UUID.MarshalBinary(): the 16 bytes themselves.
UuidMarshalBinary(u) == u

\* ------------------------------------------------------------- go-redis
\* An argument of a command, with its Go type.
UintArg(n) == [t |-> "uint", n |-> n, s |-> <<>>]
StringArg(s) == [t |-> "string", n |-> 0, s |-> s]
UuidArg(u) == [t |-> "uuid.UUID", n |-> 0, s |-> u]
StringSlicePtrArg == [t |-> "*[]string", n |-> 0, s |-> <<>>]

\* proto.Writer.WriteArg: a string is written as it is, a uint in decimal,
\* an encoding.BinaryMarshaler (uuid.UUID is one) as MarshalBinary() gives
\* it; any other type is the error "redis: can't marshal %T" and nothing is
\* sent to the server.
WriteArg(v) ==
    CASE v.t = "string" -> [err |-> "nil", bytes |-> v.s]
      [] v.t = "uint" -> [err |-> "nil", bytes |-> FormatUint(v.n)]
      [] v.t = "uuid.UUID" -> [err |-> "nil", bytes |-> UuidMarshalBinary(v.s)]
      [] OTHER -> [err |-> "redis: can't marshal", bytes |-> <<>>]

\* The store: a function from the keys that exist to their entries.  exp is
\* the time the key expires at, 0 for a key without a TTL.
StringEntry(bytes, exp) == [kind |-> "string", str |-> bytes, members |-> {}, exp |-> exp]
SetEntry(members, exp) == [kind |-> "set", str |-> <<>>, members |-> members, exp |-> exp]

Put(db, key, entry) == [k \in DOMAIN db \cup {key} |-> IF k = key THEN entry ELSE db[k]]
Remove(db, keys) == [k \in DOMAIN db \ keys |-> db[k]]

Reply(db, err, str) == [db |-> db, err |-> err, str |-> str]

\* Redis.Set(ctx, key, value, expiration): SET key value EX expiration.
RedisSet(db, key, value, expiration, t) ==
    LET w == WriteArg(value)
    IN  IF w.err # "nil" THEN Reply(db, w.err, <<>>)
        ELSE Reply(Put(db, key, StringEntry(w.bytes,
                        IF expiration > 0 THEN t + expiration ELSE 0)), "nil", <<>>)

\* Mutant: GETDEL, the key is read and deleted.
RedisGetDel(db, key) ==
    IF key \notin DOMAIN db THEN Reply(db, "redis.Nil", <<>>)
    ELSE IF db[key].kind # "string" THEN Reply(db, "WRONGTYPE", <<>>)
    ELSE Reply(Remove(db, {key}), "nil", db[key].str)

\* Redis.Get(ctx, key): GET key; redis.Nil when the key does not exist.
RedisGet(db, key) ==
    IF key \notin DOMAIN db THEN Reply(db, "redis.Nil", <<>>)
    ELSE IF db[key].kind # "string" THEN Reply(db, "WRONGTYPE", <<>>)
    ELSE Reply(db, "nil", db[key].str)

\* Redis.SAdd(ctx, key, member): SADD key member.
RedisSAdd(db, key, member) ==
    LET w == WriteArg(member)
    IN  IF w.err # "nil" THEN Reply(db, w.err, <<>>)
        ELSE IF key \notin DOMAIN db
             THEN Reply(Put(db, key, SetEntry({w.bytes}, 0)), "nil", <<>>)
        ELSE IF db[key].kind # "set" THEN Reply(db, "WRONGTYPE", <<>>)
        ELSE Reply(Put(db, key, SetEntry(db[key].members \cup {w.bytes}, db[key].exp)),
                   "nil", <<>>)

\* Redis.GetSet(ctx, key, value): GETSET key value, which stores value as the
\* key's string, without a TTL, and replies the string the key had before
\* (redis.Nil if it had none).  It does not read a set and it never writes
\* through value.
RedisGetSet(db, key, value) ==
    LET w == WriteArg(value)
    IN  IF w.err # "nil" THEN Reply(db, w.err, <<>>)
        ELSE IF key \notin DOMAIN db
             THEN Reply(Put(db, key, StringEntry(w.bytes, 0)), "redis.Nil", <<>>)
        ELSE IF db[key].kind # "string" THEN Reply(db, "WRONGTYPE", <<>>)
        ELSE Reply(Put(db, key, StringEntry(w.bytes, 0)), "nil", db[key].str)

\* Redis.Del(ctx, keys...): DEL keys; a key that does not exist is skipped.
RedisDel(db, keys) == Reply(Remove(db, keys), "nil", <<>>)

\* The keys of db that have not expired at time t.
Expire(db, t) == Remove(db, {k \in DOMAIN db : db[k].exp # 0 /\ db[k].exp <= t})

\* ------------------------------------------------------------- handlers
Ret(db, val, text, err) == [db |-> db, val |-> val, text |-> text, err |-> err]

\* A command that fails: the context is cancelled before the command is
\* sent, or the command is sent and carried out and its reply does not arrive
\* in time.  A value that cannot be marshalled is refused before anything is
\* sent, so that error stays.
Faults == {"none", "context.Canceled", "i/o timeout"}
Faulty(db, reply, fault) ==
    IF fault = "none" THEN reply
    ELSE IF fault = "context.Canceled" THEN Reply(db, "context.Canceled", <<>>)
    ELSE IF reply.err = "redis: can't marshal" THEN reply
    ELSE Reply(reply.db, "i/o timeout", <<>>)

\* Mutant: every error of the Get is reported as an invalid token.
AuthenticateSessionReturnAlwaysInvalid(get) ==
    LET userId == Atoi(get.str)
    IN  IF get.err # "nil" THEN Ret(get.db, 0, <<>>, "ErrInvalidSessionToken")
        ELSE IF userId.err # "nil" THEN Ret(get.db, 0, <<>>, userId.err)
        ELSE Ret(get.db, userId.n, <<>>, "nil")

\* What AuthenticateSession returns, given the reply of its Get(...).Int().
AuthenticateSessionReturn(get) ==
    LET userId == Atoi(get.str)
    IN  IF get.err # "nil"
        THEN IF get.err = "redis.Nil"
             THEN Ret(get.db, 0, <<>>, "ErrInvalidSessionToken")
             ELSE Ret(get.db, 0, <<>>, get.err)
        ELSE IF userId.err # "nil" THEN Ret(get.db, 0, <<>>, userId.err)
        ELSE Ret(get.db, userId.n, <<>>, "nil")

\* AuthenticateSession(ctx, sessionKey) (uint, error)
AuthenticateSessionRet(db, sessionKey) ==
    AuthenticateSessionReturn(RedisGet(db, sessionRedisKey(sessionKey)))

\* Mutant: an error of the Set is not returned, the SAdd is sent all the same.
AfterSetIgnoringErr(err) == "SAdd"

\* Mutant: a Set that failed is sent again.
AfterSetRetrying(err) == IF err = "nil" THEN "SAdd" ELSE "Set"

\* Where CreateSession goes after its Set: to the SAdd, or out of the
\* function with the error.
AfterSet(err) == IF err = "nil" THEN "SAdd" ELSE "done"

\* Mutant: the key of the record is made from sessionKey as SAdd writes it,
\* not from sessionKey.String().
CreateSessionSetCmdRawKey(db, userId, sessionKey, t) ==
    RedisSet(db, sessionRedisKey(UuidMarshalBinary(sessionKey)), UintArg(userId),
             keyDuration, t)

\* Mutant: the record is written with expiration 0, without a TTL.
CreateSessionSetCmdNoTTL(db, userId, sessionKey, t) ==
    RedisSet(db, sessionRedisKey(UuidString(sessionKey)), UintArg(userId), 0, t)

\* The two commands of the function CreateSession hands to Redis.Watch.  Both
\* go through s.Redis, not through tx, and Watch is given no key: they are
\* two separate commands, sent one after the other.
CreateSessionSetCmd(db, userId, sessionKey, t) ==
    RedisSet(db, sessionRedisKey(UuidString(sessionKey)), UintArg(userId), keyDuration, t)

CreateSessionSAddCmd(db, userId, sessionKey) ==
    RedisSAdd(db, sessionInvertedIndexRedisKey(userId), UuidArg(sessionKey))

\* CreateSession(ctx, userId) (string, error), with sessionKey the uuid that
\* uuid.NewV4() returned.
CreateSessionRet(db, userId, sessionKey, t) ==
    LET set == CreateSessionSetCmd(db, userId, sessionKey, t)
        sadd == CreateSessionSAddCmd(set.db, userId, sessionKey)
    IN  IF set.err # "nil" THEN Ret(set.db, 0, <<>>, set.err)
        ELSE IF sadd.err # "nil" THEN Ret(sadd.db, 0, <<>>, sadd.err)
        ELSE Ret(sadd.db, 0, UuidString(sessionKey), "nil")

\* Mutant: the sessions are found by their value, not through the index:
\* every record that holds userId is deleted.
InvalidateSessionsScanCmd(db, userId) ==
    Reply(Remove(db, {k \in DOMAIN db :
                        db[k].kind = "string" /\ db[k].str = FormatUint(userId)}),
          "nil", <<>>)

\* Mutant: every session record is deleted, whoever owns it.
InvalidateSessionsAllUsersCmd(db, userId) ==
    Reply(Remove(db, {k \in DOMAIN db : db[k].kind = "string"}), "nil", <<>>)

\* The first command of InvalidateSessions.  sessionsSet is nil before the
\* call and GetSet does not assign to it.
InvalidateSessionsGetSetCmd(db, userId) ==
    RedisGetSet(db, sessionInvertedIndexRedisKey(userId), StringSlicePtrArg)

\* The keys InvalidateSessions deletes, given the tokens in sessionsSet.
KeysToDelete(sessionsSet, redisKey) ==
    {sessionRedisKey(sessionsSet[i]) : i \in 1..Len(sessionsSet)} \cup {redisKey}

InvalidateSessionsDelCmd(db, userId, sessionsSet) ==
    RedisDel(db, KeysToDelete(sessionsSet, sessionInvertedIndexRedisKey(userId)))

\* InvalidateSessions(ctx, userId) error
InvalidateSessionsRet(db, userId) ==
    LET sessionsSet == <<>>
        getset == InvalidateSessionsGetSetCmd(db, userId)
        del == InvalidateSessionsDelCmd(getset.db, userId, sessionsSet)
    IN  IF getset.err # "nil" THEN Ret(getset.db, 0, <<>>, getset.err)
        ELSE IF del.err # "nil" THEN Ret(del.db, 0, <<>>, del.err)
        ELSE Ret(del.db, 0, <<>>, "nil")

\* ------------------------------------------------------------- users
\* The user directory (package users) as section 6 gives it:
\* FindByUsernameOrEmail(identifier) -> UserRecord | NotFound.
Identifiers == {"alice", "nobody"}
Passwords == {"secret", "guess"}

FindUserByUsernameOrEmail(identifier) ==
    IF identifier = "alice"
    THEN [user |-> "alice", err |-> "nil"]
    ELSE [user |-> "nil", err |-> "ErrUserNotFound"]

\* What user.ComparePassword can do when user is the nil the failed lookup
\* returned: dereference it (a panic), fail, or find no match.
NilCompareOutcomes == {"panic", "error", "mismatch"}

\* UserRecord.ComparePassword(plaintext) -> bool | error
ComparePassword(user, password, onNil) ==
    IF user = "nil"
    THEN [match |-> FALSE,
          err |-> CASE onNil = "panic" -> "panic: nil pointer dereference"
                    [] onNil = "error" -> "ErrCompare"
                    [] OTHER -> "nil"]
    ELSE [match |-> password = "secret", err |-> "nil"]

\* AuthenticateUser(ctx, authUser) (*users.User, error): the error of the
\* lookup is logged and the function goes on.
AuthenticateUserRet(identifier, password, onNil) ==
    LET found == FindUserByUsernameOrEmail(identifier)
        cmp == ComparePassword(found.user, password, onNil)
    IN  IF cmp.err # "nil" THEN [who |-> "nil", err |-> cmp.err]
        ELSE IF cmp.match THEN [who |-> found.user, err |-> "nil"]
        ELSE [who |-> "nil", err |-> "ErrWrongPassword"]

\* ------------------------------------------------------------- state
VARIABLES
    db,      \* the redis store
    now,     \* the clock of the store
    minted,  \* the uuids uuid.NewV4 has returned
    issued,  \* the tokens CreateSession has returned: uuid, user, time
    hist,    \* the last two calls of the sequential caller since the clock
             \* last moved, latest last
    pc,      \* concurrent callers: where each one is in its call
    loc      \* concurrent callers: the arguments and locals of the call

vars == <<db, now, minted, issued, hist, pc, loc>>

\* The ids CreateSession and InvalidateSessions are called with: the
\* smallest id, the largest that is an int, and the first that is not.
UserIds == {1, MaxInt, MaxInt + 1}

\* The tokens AuthenticateSession is called with: the text of every uuid
\* and the 16 raw bytes of every uuid.
TokenInputs == {UuidString(u) : u \in Uuids} \cup {UuidMarshalBinary(u) : u \in Uuids}

\* Mutant: a generator that returns a value it has returned before.
NewV4Repeating(used) == Uuids

\* uuid.NewV4(): 122 random bits; a value is not returned twice.
NewV4(used) == Uuids \ used

\* A call and what it returned: the user id, token or identifier it was
\* given, the user id, token or user it returned, its error.
NoCall == [op |-> "none", user |-> 0, text |-> <<>>, name |-> "", val |-> 0,
           out |-> <<>>, who |-> "nil", err |-> "nil"]
Call(op, user, text, r) ==
    [op |-> op, user |-> user, text |-> text, name |-> "", val |-> r.val,
     out |-> r.text, who |-> "nil", err |-> r.err]
LoginCall(identifier, r) ==
    [op |-> "AuthenticateUser", user |-> 0, text |-> <<>>, name |-> identifier,
     val |-> 0, out |-> <<>>, who |-> r.who, err |-> r.err]
Push(h, c) == <<h[2], c>>

\* The goroutines that call the service at the same time.
Procs == {"p1", "p2"}

\* The locals of a call: the handler, userId, sessionKey (the uuid of
\* CreateSession), token (the sessionKey of AuthenticateSession), the error,
\* user id and token it returned, the time of its Set, whether an
\* InvalidateSessions of the same user sent its first command after this
\* CreateSession was called and before its SAdd, and the commands it has
\* sent, each with its key and its error.
NoLocals == [op |-> "none", userId |-> 0, sessionKey |-> <<>>, token |-> <<>>,
             err |-> "nil", val |-> 0, out |-> <<>>, at |-> 0, raced |-> FALSE,
             cmds |-> <<>>]
Cmd(name, key, err) == [cmd |-> name, key |-> key, err |-> err]

Init ==
    /\ db = <<>>
    /\ now = 0
    /\ minted = {}
    /\ issued = {}
    /\ hist = <<NoCall, NoCall>>
    /\ pc = [p \in Procs |-> "idle"]
    /\ loc = [p \in Procs |-> NoLocals]

\* ------------------------------------------------------------- one caller
CreateSession(userId) ==
    \E sessionKey \in NewV4(minted) :
        LET r == CreateSessionRet(db, userId, sessionKey, now)
        IN  /\ db' = r.db
            /\ minted' = minted \cup {sessionKey}
            /\ issued' = IF r.err = "nil"
                         THEN issued \cup {[uuid |-> sessionKey, user |-> userId, at |-> now]}
                         ELSE issued
            /\ hist' = Push(hist, Call("CreateSession", userId, <<>>, r))
            /\ UNCHANGED <<now, pc, loc>>

AuthenticateSession(sessionKey) ==
    LET r == AuthenticateSessionRet(db, sessionKey)
    IN  /\ db' = r.db
        /\ hist' = Push(hist, Call("AuthenticateSession", 0, sessionKey, r))
        /\ UNCHANGED <<now, minted, issued, pc, loc>>

InvalidateSessions(userId) ==
    LET r == InvalidateSessionsRet(db, userId)
    IN  /\ db' = r.db
        /\ hist' = Push(hist, Call("InvalidateSessions", userId, <<>>, r))
        /\ UNCHANGED <<now, minted, issued, pc, loc>>

AuthenticateUser(identifier, password) ==
    \E onNil \in NilCompareOutcomes :
        LET r == AuthenticateUserRet(identifier, password, onNil)
        IN  /\ hist' = Push(hist, LoginCall(identifier, r))
            /\ UNCHANGED <<db, now, minted, issued, pc, loc>>

\* Time passes; the store drops the keys whose TTL has elapsed.
Tick ==
    /\ now < MaxTime
    /\ now' = now + 1
    /\ db' = Expire(db, now + 1)
    /\ hist' = <<NoCall, NoCall>>
    /\ UNCHANGED <<minted, issued, pc, loc>>

Next ==
    \/ \E userId \in UserIds : CreateSession(userId)
    \/ \E sessionKey \in TokenInputs : AuthenticateSession(sessionKey)
    \/ \E userId \in UserIds : InvalidateSessions(userId)
    \/ \E identifier \in Identifiers, password \in Passwords :
           AuthenticateUser(identifier, password)
    \/ Tick

Spec == Init /\ [][Next]_vars

\* ------------------------------------------------------------- many callers
\* Every command of a handler is a step of its own; the handlers of the
\* other callers run in between.
CallCreateSession(p, userId) ==
    /\ pc[p] \in {"idle", "done"}
    /\ \E sessionKey \in NewV4(minted) :
           /\ minted' = minted \cup {sessionKey}
           /\ loc' = [loc EXCEPT ![p] = [NoLocals EXCEPT !.op = "CreateSession",
                                            !.userId = userId,
                                            !.sessionKey = sessionKey]]
    /\ pc' = [pc EXCEPT ![p] = "Set"]
    /\ UNCHANGED <<db, now, issued, hist>>

CreateSessionSet(p) ==
    /\ pc[p] = "Set"
    /\ LET r == CreateSessionSetCmd(db, loc[p].userId, loc[p].sessionKey, now)
       IN  /\ db' = r.db
           /\ loc' = [loc EXCEPT ![p].err = r.err, ![p].at = now]
           /\ pc' = [pc EXCEPT ![p] = AfterSet(r.err)]
    /\ UNCHANGED <<now, minted, issued, hist>>

CreateSessionSAdd(p) ==
    /\ pc[p] = "SAdd"
    /\ LET r == CreateSessionSAddCmd(db, loc[p].userId, loc[p].sessionKey)
       IN  /\ db' = r.db
           /\ loc' = [loc EXCEPT ![p].err = r.err]
           /\ issued' = IF r.err = "nil"
                        THEN issued \cup {[uuid |-> loc[p].sessionKey,
                                           user |-> loc[p].userId, at |-> loc[p].at]}
                        ELSE issued
    /\ pc' = [pc EXCEPT ![p] = "done"]
    /\ UNCHANGED <<now, minted, hist>>

CallInvalidateSessions(p, userId) ==
    /\ pc[p] \in {"idle", "done"}
    /\ loc' = [loc EXCEPT ![p] = [NoLocals EXCEPT !.op = "InvalidateSessions",
                                                 !.userId = userId]]
    /\ pc' = [pc EXCEPT ![p] = "GetSet"]
    /\ UNCHANGED <<db, now, minted, issued, hist>>

\* The callers whose CreateSession(userId) has not sent its SAdd yet.
BeforeSAdd(userId) ==
    {q \in Procs : pc[q] \in {"Set", "SAdd"} /\ loc[q].userId = userId}

\* The commands of InvalidateSessions: GetSet, and Del if GetSet returned no
\* error.
InvalidateSessionsStep(p) ==
    /\ pc[p] \in {"GetSet", "Del"}
    /\ IF pc[p] = "GetSet"
       THEN LET r == InvalidateSessionsGetSetCmd(db, loc[p].userId)
            IN  /\ db' = r.db
                /\ loc' = [q \in Procs |->
                              IF q = p THEN [loc[p] EXCEPT !.err = r.err]
                              ELSE IF q \in BeforeSAdd(loc[p].userId)
                                   THEN [loc[q] EXCEPT !.raced = TRUE]
                                   ELSE loc[q]]
                /\ pc' = [pc EXCEPT ![p] = IF r.err = "nil" THEN "Del" ELSE "done"]
       ELSE LET r == InvalidateSessionsDelCmd(db, loc[p].userId, <<>>)
            IN  /\ db' = r.db
                /\ loc' = [loc EXCEPT ![p].err = r.err]
                /\ pc' = [pc EXCEPT ![p] = "done"]
    /\ UNCHANGED <<now, minted, issued, hist>>

NextC ==
    \/ \E p \in Procs, userId \in UserIds : CallCreateSession(p, userId)
    \/ \E p \in Procs : CreateSessionSet(p)
    \/ \E p \in Procs : CreateSessionSAdd(p)
    \/ \E p \in Procs, userId \in UserIds : CallInvalidateSessions(p, userId)
    \/ \E p \in Procs : InvalidateSessionsStep(p)
    \/ Tick

SpecC == Init /\ [][NextC]_vars

\* ------------------------------------------------------------- failures
\* Many callers, one step per redis command, and every command may fail.
\* The clock stands still: a failure does not depend on it.

\* uuid.NewV4 fails: CreateSession returns its error and sends no command.
CallCreateSessionNoEntropy(p, userId) ==
    /\ pc[p] \in {"idle", "done"}
    /\ loc' = [loc EXCEPT ![p] = [NoLocals EXCEPT !.op = "CreateSession",
                                                 !.userId = userId,
                                                 !.err = "rand.Reader"]]
    /\ pc' = [pc EXCEPT ![p] = "done"]
    /\ UNCHANGED <<db, now, minted, issued, hist>>

CreateSessionSetF(p) ==
    /\ pc[p] = "Set"
    /\ \E fault \in Faults :
           LET cmd == CreateSessionSetCmd(db, loc[p].userId, loc[p].sessionKey, now)
               r == Faulty(db, cmd, fault)
               key == sessionRedisKey(UuidString(loc[p].sessionKey))
           IN  /\ db' = r.db
               /\ loc' = [loc EXCEPT ![p].err = r.err, ![p].at = now,
                                     ![p].cmds = Append(@, Cmd("Set", key, r.err))]
               /\ pc' = [pc EXCEPT ![p] = AfterSet(r.err)]
    /\ UNCHANGED <<now, minted, issued, hist>>

CreateSessionSAddF(p) ==
    /\ pc[p] = "SAdd"
    /\ \E fault \in Faults :
           LET cmd == CreateSessionSAddCmd(db, loc[p].userId, loc[p].sessionKey)
               r == Faulty(db, cmd, fault)
               key == sessionInvertedIndexRedisKey(loc[p].userId)
               token == [uuid |-> loc[p].sessionKey, user |-> loc[p].userId,
                         at |-> loc[p].at]
           IN  /\ db' = r.db
               /\ loc' = [loc EXCEPT ![p].err = r.err,
                                     ![p].out = IF r.err = "nil"
                                                THEN UuidString(loc[p].sessionKey)
                                                ELSE <<>>,
                                     ![p].cmds = Append(@, Cmd("SAdd", key, r.err))]
               /\ issued' = IF r.err = "nil" THEN issued \cup {token} ELSE issued
    /\ pc' = [pc EXCEPT ![p] = "done"]
    /\ UNCHANGED <<now, minted, hist>>

CallAuthenticateSession(p, sessionKey) ==
    /\ pc[p] \in {"idle", "done"}
    /\ loc' = [loc EXCEPT ![p] = [NoLocals EXCEPT !.op = "AuthenticateSession",
                                                 !.token = sessionKey]]
    /\ pc' = [pc EXCEPT ![p] = "Get"]
    /\ UNCHANGED <<db, now, minted, issued, hist>>

AuthenticateSessionGetF(p) ==
    /\ pc[p] = "Get"
    /\ \E fault \in Faults :
           LET redisKey == sessionRedisKey(loc[p].token)
               get == Faulty(db, RedisGet(db, redisKey), fault)
               r == AuthenticateSessionReturn(get)
           IN  /\ db' = r.db
               /\ loc' = [loc EXCEPT ![p].err = r.err, ![p].val = r.val,
                                     ![p].cmds = Append(@, Cmd("Get", redisKey, get.err))]
    /\ pc' = [pc EXCEPT ![p] = "done"]
    /\ UNCHANGED <<now, minted, issued, hist>>

InvalidateSessionsStepF(p) ==
    /\ pc[p] \in {"GetSet", "Del"}
    /\ \E fault \in Faults :
           LET redisKey == sessionInvertedIndexRedisKey(loc[p].userId)
               cmd == IF pc[p] = "GetSet"
                      THEN InvalidateSessionsGetSetCmd(db, loc[p].userId)
                      ELSE InvalidateSessionsDelCmd(db, loc[p].userId, <<>>)
               r == Faulty(db, cmd, fault)
           IN  /\ db' = r.db
               /\ loc' = [loc EXCEPT ![p].err = r.err,
                                     ![p].cmds = Append(@, Cmd(pc[p], redisKey, r.err))]
               /\ pc' = [pc EXCEPT ![p] = IF pc[p] = "GetSet" /\ r.err = "nil"
                                          THEN "Del" ELSE "done"]
    /\ UNCHANGED <<now, minted, issued, hist>>

\* The commands of caller p.
StepF(p) ==
    \/ CreateSessionSetF(p)
    \/ CreateSessionSAddF(p)
    \/ AuthenticateSessionGetF(p)
    \/ InvalidateSessionsStepF(p)

NextF ==
    \/ \E p \in Procs, userId \in UserIds : CallCreateSession(p, userId)
    \/ \E p \in Procs, userId \in UserIds : CallCreateSessionNoEntropy(p, userId)
    \/ \E p \in Procs, sessionKey \in TokenInputs : CallAuthenticateSession(p, sessionKey)
    \/ \E p \in Procs, userId \in UserIds : CallInvalidateSessions(p, userId)
    \/ \E p \in Procs : StepF(p)

SpecF == Init /\ [][NextF]_vars

\* The same callers and commands, called for one user and with the text of
\* every uuid: whether a call returns does not depend on the user id.
UserIdsL == {1}
TokenInputsL == {UuidString(u) : u \in Uuids}

NextL ==
    \/ \E p \in Procs, userId \in UserIdsL : CallCreateSession(p, userId)
    \/ \E p \in Procs, userId \in UserIdsL : CallCreateSessionNoEntropy(p, userId)
    \/ \E p \in Procs, sessionKey \in TokenInputsL : CallAuthenticateSession(p, sessionKey)
    \/ \E p \in Procs, userId \in UserIdsL : CallInvalidateSessions(p, userId)
    \/ \E p \in Procs : StepF(p)

\* Every command returns in the end, with a reply, an error or a
\* cancellation: a caller that waits for a command gets to take its step.
SpecL == Init /\ [][NextL]_vars /\ \A p \in Procs : WF_vars(StepF(p))

\* ------------------------------------------------------------- claims
Prev == hist[1]
Last == hist[2]

IndexOf(userId) == sessionInvertedIndexRedisKey(userId)
IndexMembers(d, userId) ==
    IF IndexOf(userId) \in DOMAIN d /\ d[IndexOf(userId)].kind = "set"
    THEN d[IndexOf(userId)].members
    ELSE {}
IssuedTexts == {UuidString(i.uuid) : i \in issued}
Rejected(d, sessionKey) ==
    AuthenticateSessionRet(d, sessionKey).err = "ErrInvalidSessionToken"

\* CreateSession returned a token and AuthenticateSession of that token was
\* the next call, before the clock moved.
CreateThenAuthenticate ==
    /\ Prev.op = "CreateSession" /\ Prev.err = "nil"
    /\ Last.op = "AuthenticateSession" /\ Last.text = Prev.out

C2_InvalidatedTokensRejected ==
    Last.op = "InvalidateSessions"
        => \A i \in issued :
               i.user = Last.user => Rejected(db, UuidString(i.uuid))

\* C3: InvalidateSessions(userId) for a user whose index key is absent
\* returns no error and leaves the store as it was.
C3_NoSessionsNoError ==
    [][\A userId \in UserIds :
          InvalidateSessions(userId) /\ IndexOf(userId) \notin DOMAIN db
              => hist'[2].err = "nil" /\ db' = db]_vars

\* C4: after a successful CreateSession(userId) returning T, the set at
\* user:<userId>:session.keys has the text T as a member, so that the key
\* InvalidateSessions derives from a member is the key of T's record.
C4_IndexHoldsTokenText ==
    Last.op = "CreateSession" /\ Last.err = "nil"
        => /\ Last.out \in IndexMembers(db, Last.user)
           /\ \E m \in IndexMembers(db, Last.user) :
                  /\ sessionRedisKey(m) = sessionRedisKey(Last.out)
                  /\ sessionRedisKey(m) \in DOMAIN db

C7_ExpiredRejected ==
    \A i \in issued :
        now >= i.at + keyDuration => Rejected(db, UuidString(i.uuid))

\* The token has expired, the entry CreateSession added to the owner's index
\* for it is still there, and AuthenticateSession has just rejected it.
C7_Witness ==
    \E i \in issued :
        /\ now >= i.at + keyDuration
        /\ UuidMarshalBinary(i.uuid) \in IndexMembers(db, i.user)
        /\ Last.op = "AuthenticateSession"
        /\ Last.text = UuidString(i.uuid)
        /\ Last.err = "ErrInvalidSessionToken"

\* C8: AuthenticateUser returns ErrUserNotFound when the directory finds no
\* user for the identifier.
C8_UserNotFound ==
    Last.op = "AuthenticateUser"
        /\ FindUserByUsernameOrEmail(Last.name).err = "ErrUserNotFound"
        => Last.err = "ErrUserNotFound"

\* C9: once AuthenticateSession rejects a token that was issued (it has
\* expired or was revoked), no later call makes it accept the token again.
C9_NoWayBack ==
    [][\A i \in issued :
          Rejected(db, UuidString(i.uuid)) => Rejected(db', UuidString(i.uuid))]_vars

\* A token has expired and, after that, its owner was given a new token and
\* called InvalidateSessions.
C9_Witness ==
    \E i \in issued :
        /\ Rejected(db, UuidString(i.uuid))
        /\ Prev.op = "CreateSession" /\ Prev.err = "nil" /\ Prev.user = i.user
        /\ now >= i.at + keyDuration
        /\ Last.op = "InvalidateSessions" /\ Last.user = i.user

\* CreateSession(userId) of p has returned a token, an
\* InvalidateSessions(userId) sent its first command while p was between its
\* call and its SAdd, no InvalidateSessions(userId) is still running, and the
\* TTL of the token has not elapsed.
RaceOver(p) ==
    /\ pc[p] = "done" /\ loc[p].op = "CreateSession" /\ loc[p].err = "nil"
    /\ loc[p].raced
    /\ \A q \in Procs :
           loc[q].op = "InvalidateSessions" /\ loc[q].userId = loc[p].userId
               => pc[q] = "done"
    /\ now < loc[p].at + keyDuration

Survives(p) ==
    LET r == AuthenticateSessionRet(db, UuidString(loc[p].sessionKey))
    IN  r.err = "nil" /\ r.val = loc[p].userId

RecordKey(i) == sessionRedisKey(UuidString(i.uuid))
KeysOf(userId) == {IndexOf(userId)} \cup {RecordKey(i) : i \in {j \in issued : j.user = userId}}
Restrict(d, keys) == [k \in DOMAIN d \cap keys |-> d[k]]
Expired(i) == now >= i.at + keyDuration

\* C12: CreateSession calls of different callers, for different users or
\* with different tokens, all succeed under every interleaving, and
\* afterwards each token authenticates to its own userId and is a member of
\* the index of its own user.
C12_NoContention ==
    \A p \in Procs, q \in Procs :
        /\ p # q
        /\ pc[p] = "done" /\ loc[p].op = "CreateSession"
        /\ pc[q] = "done" /\ loc[q].op = "CreateSession"
        /\ now < loc[p].at + keyDuration
        => /\ loc[p].err = "nil"
           /\ Survives(p)
           /\ UuidString(loc[p].sessionKey) \in IndexMembers(db, loc[p].userId)

\* C14: InvalidateSessions(userId) succeeds when the index of userId holds
\* the entry of a token whose record has expired, and leaves neither a record
\* of userId nor the index key.
C14_StaleIndexInvalidated ==
    [][\A userId \in UserIds :
          /\ InvalidateSessions(userId)
          /\ \E i \in issued :
                 /\ i.user = userId /\ Expired(i)
                 /\ UuidMarshalBinary(i.uuid) \in IndexMembers(db, userId)
          => /\ hist'[2].err = "nil"
             /\ KeysOf(userId) \cap DOMAIN db' = {}]_vars

\* C17: the record of a token holds the user id the token was issued to and
\* no other, a token is issued to one user, every record is the record of an
\* issued token, and a successful AuthenticateSession(T) returns the user T
\* was issued to.
C17_OneOwner ==
    /\ \A i \in issued :
           /\ RecordKey(i) \in DOMAIN db => db[RecordKey(i)].str = FormatUint(i.user)
           /\ LET r == AuthenticateSessionRet(db, UuidString(i.uuid))
              IN  r.err = "nil" => r.val = i.user
           /\ \A j \in issued : j.uuid = i.uuid => j.user = i.user
    /\ \A k \in DOMAIN db :
           db[k].kind = "string" => \E i \in issued : k = RecordKey(i)

\* Two users hold a live session each, and AuthenticateSession has just
\* returned the owner of one of them.
C17_Witness ==
    \E i \in issued, j \in issued :
        /\ i.user # j.user
        /\ RecordKey(i) \in DOMAIN db /\ RecordKey(j) \in DOMAIN db
        /\ Last.op = "AuthenticateSession" /\ Last.text = UuidString(i.uuid)
        /\ Last.err = "nil" /\ Last.val = i.user

\* C19: once every CreateSession and InvalidateSessions call has returned,
\* the token of every live record is a member of its owner's index, and an
\* InvalidateSessions of the owner, run on its own, leaves none of the
\* owner's records.
C19_LiveSessionsIndexed ==
    (\A p \in Procs : pc[p] \in {"idle", "done"})
        => \A i \in issued :
               RecordKey(i) \in DOMAIN db
                   => /\ UuidString(i.uuid) \in IndexMembers(db, i.user)
                      /\ RecordKey(i) \notin DOMAIN InvalidateSessionsRet(db, i.user).db

\* C20: InvalidateSessions(userId) leaves the records and the index of every
\* other user as they were, and AuthenticateSession returns for every token
\* of another user what it returned before.
C20_OtherUsersUntouched ==
    [][\A userId \in UserIds :
          InvalidateSessions(userId)
              => \A other \in UserIds \ {userId} :
                     /\ Restrict(db', KeysOf(other)) = Restrict(db, KeysOf(other))
                     /\ \A i \in issued :
                            i.user = other
                                => LET before == AuthenticateSessionRet(db, UuidString(i.uuid))
                                       after == AuthenticateSessionRet(db', UuidString(i.uuid))
                                   IN  after.val = before.val /\ after.err = before.err]_vars

\* InvalidateSessions of a user with a session has just returned, and
\* another user holds a session that authenticates.
C20_Witness ==
    /\ Last.op = "InvalidateSessions"
    /\ \E i \in issued, j \in issued :
           /\ i.user = Last.user /\ j.user # Last.user
           /\ AuthenticateSessionRet(db, UuidString(j.uuid)).err = "nil"
           /\ AuthenticateSessionRet(db, UuidString(j.uuid)).val = j.user

\* Caller p has returned from a call of op.
Done(p, op) == pc[p] = "done" /\ loc[p].op = op
Waiting(p) == pc[p] \in {"Set", "SAdd", "Get", "GetSet", "Del"}

\* C11: AuthenticateSession returns ErrInvalidSessionToken when its Get
\* finds no key, the error of the Get itself, which is not
\* ErrInvalidSessionToken, when the Get fails in any other way, and no user
\* id with either.
C11_StoreErrorsMapped ==
    \A p \in Procs :
        Done(p, "AuthenticateSession")
            => LET get == loc[p].cmds[1].err
               IN  /\ get = "redis.Nil" => loc[p].err = "ErrInvalidSessionToken"
                   /\ get \notin {"nil", "redis.Nil"}
                          => loc[p].err = get /\ loc[p].err # "ErrInvalidSessionToken"
                   /\ loc[p].err # "nil" => loc[p].val = 0

\* One caller was told that its token is invalid, the key being absent;
\* the other got the error of a Get that failed on a record that is there.
C11_Witness ==
    \E p \in Procs, q \in Procs :
        /\ Done(p, "AuthenticateSession") /\ Done(q, "AuthenticateSession")
        /\ loc[p].cmds[1].err = "redis.Nil" /\ loc[p].err = "ErrInvalidSessionToken"
        /\ loc[q].cmds[1].key \in DOMAIN db
        /\ loc[q].cmds[1].err = "i/o timeout" /\ loc[q].err = "i/o timeout"

\* C13: once CreateSession has returned, with or without an error, a record
\* it wrote has its entry in the index of the owner (the member as SAdd
\* writes it, or the text of the token).
C13_RecordIsIndexed ==
    \A p \in Procs :
        Done(p, "CreateSession") /\ loc[p].cmds # <<>>
            => (sessionRedisKey(UuidString(loc[p].sessionKey)) \in DOMAIN db
                   => \/ UuidMarshalBinary(loc[p].sessionKey)
                             \in IndexMembers(db, loc[p].userId)
                      \/ UuidString(loc[p].sessionKey)
                             \in IndexMembers(db, loc[p].userId))

C16_OneReadNoWrite ==
    [][\A p \in Procs :
          /\ (\E sessionKey \in TokenInputs : CallAuthenticateSession(p, sessionKey))
                 => db' = db /\ loc'[p].cmds = <<>>
          /\ AuthenticateSessionGetF(p)
                 => /\ db' = db
                    /\ pc'[p] = "done"
                    /\ Len(loc'[p].cmds) = 1
                    /\ loc'[p].cmds[1].cmd = "Get"
                    /\ loc'[p].cmds[1].key = sessionRedisKey(loc[p].token)
                    /\ \A userId \in UserIds :
                           loc'[p].cmds[1].key # sessionInvertedIndexRedisKey(userId)]_vars

\* AuthenticateSession of a live token has returned its owner, and the
\* index of the owner is in the store.
C16_Witness ==
    \E p \in Procs, i \in issued :
        /\ Done(p, "AuthenticateSession")
        /\ loc[p].token = UuidString(i.uuid)
        /\ loc[p].err = "nil" /\ loc[p].val = i.user
        /\ IndexOf(i.user) \in DOMAIN db

\* C18: when every command returns in the end, every call returns, having
\* sent two commands at most, whatever the other callers do; a command that
\* is cancelled is the last of its call, and the call returns the
\* cancellation as its error.
C18_EveryCallReturns ==
    /\ \A p \in Procs : Waiting(p) ~> pc[p] = "done"
    /\ [](\A p \in Procs :
              /\ Len(loc[p].cmds) <= 2
              /\ \A i \in 1..Len(loc[p].cmds) :
                     loc[p].cmds[i].err = "context.Canceled"
                         => /\ i = Len(loc[p].cmds)
                            /\ pc[p] = "done"
                            /\ loc[p].err = "context.Canceled")

\* A call has returned the cancellation of its command while the other
\* caller waits for a command of its own.
C18_Witness ==
    \E p \in Procs, q \in Procs :
        /\ pc[p] = "done" /\ loc[p].err = "context.Canceled"
        /\ loc[p].cmds # <<>>
        /\ Waiting(q)

====
